---------------------------- MODULE Spec2Model ----------------------------
(***************************************************************************)
(* MiniCompiler: lowering of a restricted Python subset to LLVM IR with    *)
(* llvmlite.  Two variants of class LLVMCompiler are modelled:             *)
(*   "mini_compiler"  src/mini_compiler.py  (visit_If, handle_print,       *)
(*                    unguarded visit_Return, no visit_While)              *)
(*   "logical"        src/logical.py        (visit_While, guarded          *)
(*                    visit_Return, no visit_If, no handle_print)          *)
(* A node kind without a visit_<Kind> method falls to                      *)
(* ast.NodeVisitor.generic_visit, which visits the node's children in      *)
(* field order and creates no block.                                       *)
(*                                                                         *)
(* The compilation unit is a list of top-level function definitions.  The  *)
(* names and parameters (all that the declaration pass reads) are fixed in *)
(* Init; the statements of the bodies are revealed one at a time, in the   *)
(* order in which the single-pass visitor meets them: either any statement *)
(* of the Menu (mode "free") or the next event of a fixed program (the     *)
(* scripted modes), whose emitted IR is then executed.                     *)
(***************************************************************************)
EXTENDS Integers, Sequences, FiniteSets, TLC

VARIABLES
    variant,            \* which source file's LLVMCompiler is running
    unit,               \* tree.body: <<[name, params]>> of the FunctionDefs
    mode,               \* "free", or the name of the scripted program
    param,              \* the scripted program's parameter (a loop limit)
    todo,               \* script mode: the statement events still to come
    budget,             \* free mode: statements that may still be lowered
    pc,                 \* "declare", "lower", "done", "error"
    di,                 \* compile(): index of the first loop
    fi,                 \* compile(): index of the second loop
    functions,          \* self.functions: name -> arity
    globals,            \* names registered in self.module
    strs,               \* payloads of the string globals, in creation order
    string_constants,   \* self.string_constants: text -> bitcast value
    blocks,             \* blocks[f]: the basic blocks of function unit[f]
    bfn,                \* self.builder.function (0: builder is None)
    cur,                \* index of self.builder.block in blocks[bfn]
    local_symbols,      \* self.local_symbols: name -> value
    stack,              \* the visitor's pending handlers (Python call stack)
    err,                \* "none" or the exception type that aborted compile
    last,               \* the handler that ran last
    run                 \* execution of the emitted IR

vars == <<variant, unit, mode, param, todo, budget, pc, di, fi, functions, globals,
          strs, string_constants, blocks, bfn, cur, local_symbols, stack,
          err, last, run>>

(* ------------------------------ bounds --------------------------------- *)
MaxFuncs == 2
MaxStmts == 2
MaxDepth == 2
MaxLimit == 3
MaxSteps == 200

(* ------------------------------ the AST -------------------------------- *)
Const(v)          == [k |-> "Const", v |-> v]
Str(s)            == [k |-> "Str", s |-> s]
Name(id)          == [k |-> "Name", id |-> id]
BinOp(l, op, r)   == [k |-> "BinOp", op |-> op, l |-> l, r |-> r]
Compare(l, op, r) == [k |-> "Compare", op |-> op, l |-> l, r |-> r]
Call(fn, args)    == [k |-> "Call", fn |-> fn, args |-> args]
NoExpr            == [k |-> "Nil"]

Assign(id, e) == [s |-> "Assign", id |-> id, e |-> e]
Return(e)     == [s |-> "Return", id |-> "", e |-> e]
Expr(e)       == [s |-> "Expr", id |-> "", e |-> e]
If(e)         == [s |-> "If", id |-> "", e |-> e]
While(e)      == [s |-> "While", id |-> "", e |-> e]
End           == [s |-> "End", id |-> "", e |-> NoExpr]

FunctionDef(name, params) == [name |-> name, params |-> params]
DefF == FunctionDef("f", <<"n">>)
DefG == FunctionDef("g", <<>>)

(* ----------------------------- IR values ------------------------------- *)
\* A value: an integer constant, an argument of function f, the result of
\* instruction v of function f, or Python's None.  t is its LLVM type.
ConstV(n)   == [k |-> "const", v |-> n, f |-> 0, t |-> "i32"]
ArgV(f, i)  == [k |-> "arg", v |-> i, f |-> f, t |-> "i32"]
RegV(f, n, t) == [k |-> "reg", v |-> n, f |-> f, t |-> t]
NoneV       == [k |-> "none", v |-> 0, f |-> 0, t |-> "none"]

GlobalV(i)  == [k |-> "global", v |-> i, f |-> 0, t |-> "ptr"]

\* One instruction: opcode, the number of its result, operands, branch
\* targets (block indices), the operator or callee, and for a printf call
\* the text whose constant was asked for.
Instr(op, dst, args, tgt, sym) ==
    [op |-> op, dst |-> dst, args |-> args, tgt |-> tgt, sym |-> sym, txt |-> ""]

Terminators == {"ret", "br", "cbr"}

Block(label) == [label |-> label, instrs |-> <<>>, term |-> FALSE]

RECURSIVE SumLen(_, _)
SumLen(bs, i) == IF i > Len(bs) THEN 0 ELSE Len(bs[i].instrs) + SumLen(bs, i + 1)

\* llvmlite names every instruction result; here a result is numbered by the
\* count of instructions its function held when it was created.
NInstrs(f) == SumLen(blocks[f], 1)


(* ------------------------- expression lowering ------------------------- *)
ArithOps == {"+", "-", "*", "/"}
CmpOps   == {"<", "<=", ">", ">=", "=="}

\* The result of lowering an expression: the value, the instructions added
\* to the current block, the exception raised (if any), and whether a node
\* with an operator outside the tables was met.
Res(val, code, e, unsup) == [val |-> val, code |-> code, err |-> e, unsup |-> unsup]

visit_Constant(e) ==
    IF e.k = "Const" THEN Res(ConstV(e.v), <<>>, "none", FALSE)
    ELSE Res(NoneV, <<>>, "NotImplementedError", FALSE)

visit_Name(e, base) ==
    IF e.id \in DOMAIN local_symbols
    THEN LET ptr == local_symbols[e.id] IN
         IF ptr.t = "ptr"
         THEN Res(RegV(bfn, base + 1, "i32"),
                  <<Instr("load", base + 1, <<ptr>>, <<>>, e.id)>>, "none", FALSE)
         ELSE Res(ptr, <<>>, "none", FALSE)
    ELSE Res(NoneV, <<>>, "NameError", FALSE)

\* ops[type(node.op)](lhs, rhs) if type(node.op) in ops else None
visit_BinOp(e, L, R, base) ==
    IF e.op \in ArithOps
    THEN IF L.k = "none" \/ R.k = "none" THEN Res(NoneV, <<>>, "AttributeError", FALSE)
         ELSE IF L.t # R.t THEN Res(NoneV, <<>>, "ValueError", FALSE)
         ELSE Res(RegV(bfn, base + 1, L.t),
                  <<Instr("binop", base + 1, <<L, R>>, <<>>, e.op)>>, "none", FALSE)
    ELSE Res(NoneV, <<>>, "none", TRUE)

visit_Compare(e, L, R, base) ==
    IF e.op \in CmpOps
    THEN IF L.k = "none" \/ R.k = "none" THEN Res(NoneV, <<>>, "AttributeError", FALSE)
         ELSE Res(RegV(bfn, base + 1, "i1"),
                  <<Instr("icmp", base + 1, <<L, R>>, <<>>, e.op)>>, "none", FALSE)
    ELSE Res(NoneV, <<>>, "none", TRUE)

\* builder.call(fn, args): llvmlite checks the first arity operands.
CallCheck(arity, vals) ==
    IF Len(vals) < arity THEN "IndexError"
    ELSE IF \E i \in 1..arity : vals[i].k = "none" THEN "AttributeError"
    ELSE IF \E i \in 1..arity : vals[i].t # "i32" THEN "TypeError"
    ELSE "none"

RECURSIVE Visit(_, _)
RECURSIVE VisitArgs(_, _, _)

\* [self.visit(arg) for arg in node.args]
VisitArgs(args, i, base) ==
    IF i > Len(args) THEN [vals |-> <<>>, code |-> <<>>, err |-> "none", unsup |-> FALSE]
    ELSE LET h == Visit(args[i], base) IN
         IF h.err # "none"
         THEN [vals |-> <<>>, code |-> h.code, err |-> h.err, unsup |-> h.unsup]
         ELSE LET r == VisitArgs(args, i + 1, base + Len(h.code)) IN
              [vals |-> <<h.val>> \o r.vals, code |-> h.code \o r.code,
               err |-> r.err, unsup |-> h.unsup \/ r.unsup]

visit_Call(e, base) ==
    IF e.fn \in DOMAIN functions
    THEN LET a == VisitArgs(e.args, 1, base)
             n == base + Len(a.code) IN
         IF a.err # "none" THEN Res(NoneV, a.code, a.err, a.unsup)
         ELSE IF CallCheck(functions[e.fn], a.vals) # "none"
         THEN Res(NoneV, a.code, CallCheck(functions[e.fn], a.vals), a.unsup)
         ELSE Res(RegV(bfn, n + 1, "i32"),
                  a.code \o <<Instr("call", n + 1, a.vals, <<>>, e.fn)>>, "none", a.unsup)
    ELSE Res(NoneV, <<>>, "NotImplementedError", FALSE)

\* self.visit(node) for an expression node; base is the number of
\* instructions the function holds before it.
Visit(e, base) ==
    CASE e.k \in {"Const", "Str"} -> visit_Constant(e)
      [] e.k = "Name" -> visit_Name(e, base)
      [] e.k \in {"BinOp", "Compare"} ->
            LET L == Visit(e.l, base) IN
            IF L.err # "none" THEN L
            ELSE LET R == Visit(e.r, base + Len(L.code)) IN
                 IF R.err # "none"
                 THEN Res(NoneV, L.code \o R.code, R.err, L.unsup \/ R.unsup)
                 ELSE LET o == IF e.k = "BinOp"
                               THEN visit_BinOp(e, L.val, R.val, base + Len(L.code) + Len(R.code))
                               ELSE visit_Compare(e, L.val, R.val, base + Len(L.code) + Len(R.code))
                      IN Res(o.val, L.code \o R.code \o o.code, o.err,
                             L.unsup \/ R.unsup \/ o.unsup)
      [] e.k = "Call" -> visit_Call(e, base)
      [] OTHER -> Res(NoneV, <<>>, "none", FALSE)

(* --------------------------- the IRBuilder ----------------------------- *)
IsTerminated == blocks[bfn][cur].term

\* builder.<instr>(...): insert at the end of the current block.  llvmlite
\* inserts whether or not the block already holds its terminator.
Emit(bs, code) == [bs EXCEPT ![bfn][cur].instrs = @ \o code]

\* func.append_basic_block(name)
AppendBlocks(bs, labels) ==
    [bs EXCEPT ![bfn] = @ \o [i \in 1..Len(labels) |-> Block(labels[i])]]

\* The same, into block b (after position_at_end(b)).
EmitAt(bs, b, code) == [bs EXCEPT ![bfn][b].instrs = @ \o code]

\* IRBuilder._set_terminator on block b, once its assertion has passed.
TermAt(bs, b, instr) ==
    [bs EXCEPT ![bfn][b].instrs = @ \o <<instr>>, ![bfn][b].term = TRUE]

Mark(k, id, unsup) == [k |-> k, id |-> id, unsup |-> unsup]

\* An exception leaves compile(): what was built so far stays in the module.
Raise(bs, e, m) ==
    /\ pc' = "error"
    /\ err' = e
    /\ blocks' = bs
    /\ last' = m
    /\ UNCHANGED <<di, fi, functions, globals, strs, string_constants, bfn, cur,
                   local_symbols, stack, run>>

(* ------------------------- the statements fed -------------------------- *)
One == Const(1)
Unsupported == BinOp(One, "%", One)
TestOk  == Compare(One, "<", One)
TestBad == Compare(One, "!=", One)

Menu ==
    {Assign(id, e) : id \in {"x", "n"},
                     e \in {One, Name("x"), BinOp(Name("x"), "+", One), Unsupported}}
    \cup {Return(e) : e \in {One, Name("x"), Unsupported}}
    \cup {Expr(e) : e \in {Call("f", <<One>>), Call("g", <<>>), Call("h", <<>>),
                           Call("print", <<Str("a")>>), Call("print", <<Str("%d\n")>>),
                           Call("print", <<Str("a"), Name("x")>>), Unsupported}}
    \cup {If(e) : e \in {TestOk, TestBad}}
    \cup {While(e) : e \in {TestOk, TestBad}}

Top == stack[Len(stack)]
Frame(k, a, b) == [k |-> k, a |-> a, b |-> b]
Pop == SubSeq(stack, 1, Len(stack) - 1)

\* The statements the visitor may meet next in the list it is iterating.
Offered ==
    IF mode = "free"
    THEN IF budget > 0
         THEN {ev \in Menu : ev.s \in {"If", "While"} => Len(stack) <= MaxDepth}
         ELSE {}
    ELSE IF todo = <<>> \/ Head(todo) = End THEN {} ELSE {Head(todo)}

\* The list being iterated is exhausted.
AtEnd == mode = "free" \/ (todo # <<>> /\ Head(todo) = End)

Take(ev) ==
    /\ todo' = IF mode # "free" THEN Tail(todo) ELSE todo
    /\ budget' = IF mode = "free" /\ ev.s # "End" THEN budget - 1 ELSE budget
    /\ UNCHANGED <<variant, unit, mode, param>>

InBody == pc = "compile" /\ stack # <<>>

(* ---------------------------- compile() -------------------------------- *)
\* Mutant: the bodies are lowered once the first definition is declared.
DeclPassDone_first == di > 1

\* The first loop of compile() has run to its end.
DeclPassDone == di > Len(unit)

declare_function ==
    /\ pc = "compile" /\ ~DeclPassDone /\ di <= Len(unit) /\ stack = <<>> /\ fi = 1
    /\ LET node == unit[di] IN
       IF node.name \in globals
       THEN /\ pc' = "error" /\ err' = "DuplicatedNameError"
            /\ UNCHANGED <<functions, globals, di>>
       ELSE /\ functions' = (node.name :> Len(node.params)) @@ functions
            /\ globals' = globals \cup {node.name}
            /\ di' = di + 1
            /\ UNCHANGED <<pc, err>>
    /\ last' = Mark("declare", "", FALSE)
    /\ UNCHANGED <<variant, unit, mode, param, todo, budget, fi, strs, string_constants,
                   blocks, bfn, cur, local_symbols, stack, run>>

\* self.local_symbols = {arg.arg: func.args[i] ...}
BindParams(f) ==
    [id \in {unit[f].params[i] : i \in 1..Len(unit[f].params)} |->
        ArgV(f, CHOOSE i \in 1..Len(unit[f].params) : unit[f].params[i] = id)]

visit_FunctionDef ==
    /\ pc = "compile" /\ DeclPassDone /\ stack = <<>> /\ fi <= Len(unit)
    /\ IF unit[fi].name \notin DOMAIN functions
       THEN /\ pc' = "error" /\ err' = "KeyError"
            /\ UNCHANGED <<blocks, bfn, cur, local_symbols, stack>>
       ELSE /\ blocks' = [blocks EXCEPT ![fi] = @ \o <<Block("entry")>>]
            /\ bfn' = fi
            /\ cur' = Len(blocks[fi]) + 1
            /\ local_symbols' = BindParams(fi)
            /\ stack' = <<Frame("fn", 0, 0)>>
            /\ UNCHANGED <<pc, err>>
    /\ last' = Mark("FunctionDef", "", FALSE)
    /\ UNCHANGED <<variant, unit, mode, param, todo, budget, di, fi, functions, globals,
                   strs, string_constants, run>>

\* Mutant: the implicit return is inserted without looking at the block.
NeedsImplicitReturn_always == TRUE

\* if not self.builder.block.is_terminated
NeedsImplicitReturn == ~IsTerminated

FunctionEnd ==
    /\ InBody /\ Top.k = "fn" /\ AtEnd
    /\ Take(End)
    /\ blocks' = IF NeedsImplicitReturn
                 THEN TermAt(blocks, cur, Instr("ret", NInstrs(bfn) + 1, <<ConstV(0)>>, <<>>, ""))
                 ELSE blocks
    /\ stack' = <<>>
    /\ fi' = fi + 1
    /\ last' = Mark("FunctionEnd", "", FALSE)
    /\ UNCHANGED <<pc, err, di, functions, globals, strs, string_constants, bfn,
                   cur, local_symbols, run>>

(* ----------------------------- statements ------------------------------ *)
StmtSame == UNCHANGED <<pc, err, di, fi, functions, globals, strs, string_constants,
                        bfn, cur, stack, run>>

visit_Assign ==
    \E ev \in Offered :
    /\ InBody /\ ev.s = "Assign"
    /\ Take(ev)
    /\ LET v == Visit(ev.e, NInstrs(bfn))
           n == NInstrs(bfn) + Len(v.code)
           m == Mark("Assign", ev.id, v.unsup)
       IN  IF v.err # "none" THEN Raise(Emit(blocks, v.code), v.err, m)
           ELSE IF ev.id \notin DOMAIN local_symbols
           THEN \* ptr = self.builder.alloca(value.type, name=var_name)
                IF v.val.k = "none" THEN Raise(Emit(blocks, v.code), "AttributeError", m)
                ELSE /\ blocks' = Emit(blocks, v.code \o
                            <<Instr("alloca", n + 1, <<>>, <<>>, ev.id),
                              Instr("store", n + 2, <<v.val, RegV(bfn, n + 1, "ptr")>>, <<>>, ev.id)>>)
                     /\ local_symbols' = (ev.id :> RegV(bfn, n + 1, "ptr")) @@ local_symbols
                     /\ last' = m
                     /\ StmtSame
           ELSE \* self.builder.store(value, ptr): ptr must be a pointer
                LET ptr == local_symbols[ev.id] IN
                IF ptr.t # "ptr" THEN Raise(Emit(blocks, v.code), "TypeError", m)
                ELSE IF v.val.k = "none" THEN Raise(Emit(blocks, v.code), "AttributeError", m)
                ELSE /\ blocks' = Emit(blocks, v.code \o
                            <<Instr("store", n + 1, <<v.val, ptr>>, <<>>, ev.id)>>)
                     /\ last' = m
                     /\ UNCHANGED local_symbols
                     /\ StmtSame

\* builder.ret(value): Ret takes no operand when value is None.
RetInstr(n, val) == Instr("ret", n, IF val.k = "none" THEN <<>> ELSE <<val>>, <<>>, "")

\* src/mini_compiler.py: self.builder.ret(self.visit(node.value))
Return_mini(ev) ==
    LET v == Visit(ev.e, NInstrs(bfn))
        n == NInstrs(bfn) + Len(v.code)
        m == Mark("Return", "", v.unsup)
    IN  IF v.err # "none" THEN Raise(Emit(blocks, v.code), v.err, m)
        ELSE IF IsTerminated THEN Raise(Emit(blocks, v.code), "AssertionError", m)
        ELSE /\ blocks' = TermAt(Emit(blocks, v.code), cur, RetInstr(n + 1, v.val))
             /\ last' = m
             /\ UNCHANGED local_symbols
             /\ StmtSame

\* src/logical.py: if not self.builder.block.is_terminated: ret(visit(value))
Return_logical(ev) ==
    IF IsTerminated
    THEN /\ last' = Mark("Return", "", FALSE)
         /\ UNCHANGED <<blocks, local_symbols>>
         /\ StmtSame
    ELSE LET v == Visit(ev.e, NInstrs(bfn))
             n == NInstrs(bfn) + Len(v.code)
             m == Mark("Return", "", v.unsup)
         IN  IF v.err # "none" THEN Raise(Emit(blocks, v.code), v.err, m)
             ELSE /\ blocks' = TermAt(Emit(blocks, v.code), cur, RetInstr(n + 1, v.val))
                  /\ last' = m
                  /\ UNCHANGED local_symbols
                  /\ StmtSame

visit_Return ==
    \E ev \in Offered :
    /\ InBody /\ ev.s = "Return"
    /\ Take(ev)
    /\ IF variant = "logical" THEN Return_logical(ev) ELSE Return_mini(ev)

(* ----------------------------- print ----------------------------------- *)
\* f"str_const_{len(self.string_constants)}"
StrConstName(n) ==
    <<"str_const_0", "str_const_1", "str_const_2", "str_const_3", "str_const_4">>[n + 1]

\* Mutant: the table of constants is never consulted.
Interned_never(text, sc) == FALSE

\* if text in self.string_constants
Interned(text, sc) == text \in DOMAIN sc

\* The lowering state handle_print threads through its arguments.
PState == [code |-> <<>>, sc |-> string_constants, strs |-> strs, globals |-> globals,
           err |-> "none", unsup |-> FALSE, ref |-> NoneV]

create_string_constant(text, st) ==
    IF Interned(text, st.sc) THEN [st EXCEPT !.ref = st.sc[text]]
    ELSE LET name == StrConstName(Cardinality(DOMAIN st.sc))
             n == NInstrs(bfn) + Len(st.code) IN
         IF name \in st.globals THEN [st EXCEPT !.err = "DuplicatedNameError"]
         ELSE [st EXCEPT
                 !.globals = @ \cup {name},
                 !.strs = Append(@, text),
                 !.code = Append(@, Instr("bitcast", n + 1, <<GlobalV(Len(st.strs) + 1)>>, <<>>, name)),
                 !.sc = (text :> RegV(bfn, n + 1, "ptr")) @@ @,
                 !.ref = RegV(bfn, n + 1, "ptr")]

PrintfCall(n, args, text) == [Instr("call", n, args, <<>>, "printf") EXCEPT !.txt = text]

RECURSIVE handle_print(_, _, _)
handle_print(args, i, st) ==
    IF i > Len(args) \/ st.err # "none" THEN st
    ELSE LET arg == args[i] IN
         IF arg.k = "Str"
         THEN LET c == create_string_constant(arg.s, st) IN
              IF c.err # "none" THEN c
              ELSE handle_print(args, i + 1,
                     [c EXCEPT !.code = Append(@,
                        PrintfCall(NInstrs(bfn) + Len(c.code) + 1, <<c.ref>>, arg.s))])
         ELSE LET v == Visit(arg, NInstrs(bfn) + Len(st.code))
                  s1 == [st EXCEPT !.code = @ \o v.code, !.unsup = @ \/ v.unsup] IN
              IF v.err # "none" THEN [s1 EXCEPT !.err = v.err]
              ELSE IF v.val.k = "none" THEN [s1 EXCEPT !.err = "AttributeError"]
              ELSE LET c == create_string_constant("%d\n", s1) IN
                   IF c.err # "none" THEN c
                   ELSE handle_print(args, i + 1,
                          [c EXCEPT !.code = Append(@,
                             PrintfCall(NInstrs(bfn) + Len(c.code) + 1, <<c.ref, v.val>>, "%d\n"))])

IsPrint(e) == e.k = "Call" /\ e.fn = "print" /\ "print" \notin DOMAIN functions

visit_Expr ==
    \E ev \in Offered :
    /\ InBody /\ ev.s = "Expr"
    /\ Take(ev)
    /\ UNCHANGED <<di, fi, functions, bfn, cur, local_symbols, stack, run>>
    /\ IF IsPrint(ev.e)
       THEN IF variant = "logical"
            THEN \* src/logical.py defines no handle_print
                 /\ pc' = "error" /\ err' = "AttributeError"
                 /\ last' = Mark("Expr", "", FALSE)
                 /\ UNCHANGED <<blocks, globals, strs, string_constants>>
            ELSE LET r == handle_print(ev.e.args, 1, PState) IN
                 /\ blocks' = Emit(blocks, r.code)
                 /\ globals' = r.globals
                 /\ strs' = r.strs
                 /\ string_constants' = r.sc
                 /\ err' = r.err
                 /\ pc' = IF r.err = "none" THEN pc ELSE "error"
                 /\ last' = Mark("Expr", "print", r.unsup)
       ELSE LET v == Visit(ev.e, NInstrs(bfn)) IN
            /\ blocks' = Emit(blocks, v.code)
            /\ err' = v.err
            /\ pc' = IF v.err = "none" THEN pc ELSE "error"
            /\ last' = Mark("Expr", "", v.unsup)
            /\ UNCHANGED <<globals, strs, string_constants>>

(* ------------------------- control flow -------------------------------- *)
CtlSame == UNCHANGED <<di, fi, functions, globals, strs, string_constants, bfn,
                       local_symbols, run>>

\* ast.NodeVisitor.generic_visit: the variant has no handler for the node.
generic_visit ==
    \E ev \in Offered :
    /\ InBody
    /\ \/ ev.s = "If" /\ variant = "logical"
       \/ ev.s = "While" /\ variant = "mini_compiler"
    /\ Take(ev)
    /\ LET v == Visit(ev.e, NInstrs(bfn)) IN
       /\ blocks' = Emit(blocks, v.code)
       /\ err' = v.err
       /\ pc' = IF v.err = "none" THEN pc ELSE "error"
       /\ stack' = IF v.err = "none"
                   THEN Append(stack, Frame(IF ev.s = "If" THEN "gthen" ELSE "gbody", 0, 0))
                   ELSE stack
       /\ last' = Mark("generic", ev.s, v.unsup)
    /\ UNCHANGED cur
    /\ CtlSame

generic_end ==
    /\ InBody /\ Top.k \in {"gthen", "gbody"} /\ AtEnd
    /\ Take(End)
    /\ stack' = IF Top.k = "gthen" THEN Append(Pop, Frame("gbody", 0, 0)) ELSE Pop
    /\ last' = Mark("generic_end", "", FALSE)
    /\ UNCHANGED <<pc, err, blocks, cur>>
    /\ CtlSame

\* src/mini_compiler.py visit_If, up to the lowering of node.body
visit_If ==
    \E ev \in Offered :
    /\ InBody /\ ev.s = "If" /\ variant = "mini_compiler"
    /\ Take(ev)
    /\ CtlSame
    /\ LET v == Visit(ev.e, NInstrs(bfn))
           n == Len(blocks[bfn])
           m == Mark("If", "", v.unsup)
           bs == AppendBlocks(Emit(blocks, v.code), <<"then", "else", "merge">>)
       IN  IF v.err # "none"
           THEN /\ pc' = "error" /\ err' = v.err /\ blocks' = Emit(blocks, v.code)
                /\ last' = m /\ UNCHANGED <<cur, stack>>
           ELSE IF IsTerminated
           THEN /\ pc' = "error" /\ err' = "AssertionError" /\ blocks' = bs
                /\ last' = m /\ UNCHANGED <<cur, stack>>
           ELSE /\ blocks' = TermAt(bs, cur,
                       Instr("cbr", NInstrs(bfn) + Len(v.code) + 1,
                             IF v.val.k = "none" THEN <<>> ELSE <<v.val>>, <<n + 1, n + 2>>, ""))
                /\ cur' = n + 1
                /\ stack' = Append(stack, Frame("then", n + 2, n + 3))
                /\ last' = m
                /\ UNCHANGED <<pc, err>>

\* after node.body: branch to merge if still open, go on with node.orelse
if_then_end ==
    /\ InBody /\ Top.k = "then" /\ AtEnd
    /\ Take(End)
    /\ blocks' = IF ~IsTerminated
                 THEN TermAt(blocks, cur, Instr("br", NInstrs(bfn) + 1, <<>>, <<Top.b>>, ""))
                 ELSE blocks
    /\ cur' = Top.a
    /\ stack' = Append(Pop, Frame("else", 0, Top.b))
    /\ last' = Mark("if_then_end", "", FALSE)
    /\ UNCHANGED <<pc, err>>
    /\ CtlSame

\* after node.orelse: branch to merge if still open, position at merge
if_else_end ==
    /\ InBody /\ Top.k = "else" /\ AtEnd
    /\ Take(End)
    /\ blocks' = IF ~IsTerminated
                 THEN TermAt(blocks, cur, Instr("br", NInstrs(bfn) + 1, <<>>, <<Top.b>>, ""))
                 ELSE blocks
    /\ cur' = Top.b
    /\ stack' = Pop
    /\ last' = Mark("if_else_end", "", FALSE)
    /\ UNCHANGED <<pc, err>>
    /\ CtlSame

\* Mutant: the body branches back to itself, past the test.
BackEdge_body(cond, body) == body

\* The target of the branch that closes the loop body.
BackEdge(cond, body) == cond

\* src/logical.py visit_While, up to the lowering of node.body
visit_While ==
    \E ev \in Offered :
    /\ InBody /\ ev.s = "While" /\ variant = "logical"
    /\ Take(ev)
    /\ CtlSame
    /\ LET n == Len(blocks[bfn])
           bs == AppendBlocks(blocks, <<"while_cond", "while_body", "while_end">>)
           b1 == TermAt(bs, cur, Instr("br", NInstrs(bfn) + 1, <<>>, <<n + 1>>, ""))
           v == Visit(ev.e, NInstrs(bfn) + 1)
           b2 == EmitAt(b1, n + 1, v.code)
           m == Mark("While", "", v.unsup)
       IN  IF IsTerminated
           THEN /\ pc' = "error" /\ err' = "AssertionError" /\ blocks' = bs
                /\ last' = Mark("While", "", FALSE) /\ UNCHANGED <<cur, stack>>
           ELSE IF v.err # "none"
           THEN /\ pc' = "error" /\ err' = v.err /\ blocks' = b2
                /\ cur' = n + 1
                /\ last' = m /\ UNCHANGED stack
           ELSE /\ blocks' = TermAt(b2, n + 1,
                       Instr("cbr", NInstrs(bfn) + Len(v.code) + 2,
                             IF v.val.k = "none" THEN <<>> ELSE <<v.val>>, <<n + 2, n + 3>>, ""))
                /\ cur' = n + 2
                /\ stack' = Append(stack, Frame("while", n + 1, n + 3))
                /\ last' = m
                /\ UNCHANGED <<pc, err>>

\* after node.body: self.builder.branch(while_cond); position at while_end
while_end ==
    /\ InBody /\ Top.k = "while" /\ AtEnd
    /\ Take(End)
    /\ CtlSame
    /\ IF IsTerminated
       THEN /\ pc' = "error" /\ err' = "AssertionError"
            /\ UNCHANGED <<blocks, cur, stack>>
       ELSE /\ blocks' = TermAt(blocks, cur,
                   Instr("br", NInstrs(bfn) + 1, <<>>, <<BackEdge(Top.a, Top.a + 1)>>, ""))
            /\ cur' = Top.b
            /\ stack' = Pop
            /\ UNCHANGED <<pc, err>>
    /\ last' = Mark("while_end", "", FALSE)

\* str(self.module): a conditional branch prints its condition's type.
Printable ==
    \A f \in 1..Len(blocks) : \A b \in 1..Len(blocks[f]) :
        \A i \in 1..Len(blocks[f][b].instrs) :
            blocks[f][b].instrs[i].op = "cbr" => blocks[f][b].instrs[i].args # <<>>

compile_return ==
    /\ pc = "compile" /\ DeclPassDone /\ stack = <<>> /\ fi > Len(unit)
    /\ mode # "free" => todo = <<>>
    /\ pc' = IF Printable THEN "done" ELSE "error"
    /\ err' = IF Printable THEN "none" ELSE "AttributeError"
    /\ last' = Mark("compile_return", "", FALSE)
    /\ UNCHANGED <<variant, unit, mode, param, todo, budget, di, fi, functions, globals,
                   strs, string_constants, blocks, bfn, cur, local_symbols, stack, run>>

(* ------------------------ scripted programs ---------------------------- *)
NameI == Name("i")
NameJ == Name("j")
TestN == Compare(Name("n"), "<", One)

\* def g(): i = 0; while i < k: i = i + 1;  return i
CountLoop(k) ==
    <<Assign("i", Const(0)), While(Compare(NameI, "<", Const(k))),
        Assign("i", BinOp(NameI, "+", One)), End,
      Return(NameI), End>>

\* the same with an inner loop of two rounds before the increment
NestedLoop(k) ==
    <<Assign("i", Const(0)), While(Compare(NameI, "<", Const(k))),
        Assign("j", Const(0)), While(Compare(NameJ, "<", Const(2))),
            Assign("j", BinOp(NameJ, "+", One)), End,
        Assign("i", BinOp(NameI, "+", One)), End,
      Return(NameI), End>>

\* def f(n): if n < 1: x = 1  else: x = 2;  return x
IfBoth == <<If(TestN), Assign("x", One), End, Assign("x", Const(2)), End,
            Return(Name("x")), End>>
\* def f(n): if n < 1: x = 1;  return x
IfThen == <<If(TestN), Assign("x", One), End, End, Return(Name("x")), End>>
\* def f(n): x = 0; if n < 1: x = 1  else: x = 2;  return x
IfPre == <<Assign("x", Const(0)), If(TestN), Assign("x", One), End,
           Assign("x", Const(2)), End, Return(Name("x")), End>>
\* def g(): print("a", 1)      def f(n): print("a"); print(n)
PrintTwo == <<Expr(Call("print", <<Str("a"), One>>)), End,
              Expr(Call("print", <<Str("a")>>)), Expr(Call("print", <<Name("n")>>)), End>>

Scenario(m, k, v, u, t) == [mode |-> m, param |-> k, variant |-> v, unit |-> u, todo |-> t]

Scenarios ==
    {Scenario("count", k, "logical", <<DefG>>, CountLoop(k)) : k \in 0..MaxLimit}
    \cup {Scenario("nested", k, "logical", <<DefG>>, NestedLoop(k)) : k \in 0..MaxLimit}
    \cup {Scenario("ifboth", 0, "mini_compiler", <<DefF>>, IfBoth),
          Scenario("ifthen", 0, "mini_compiler", <<DefF>>, IfThen),
          Scenario("ifpre", 0, "mini_compiler", <<DefF>>, IfPre),
          Scenario("print", 0, "mini_compiler", <<DefG, DefF>>, PrintTwo)}

(* ----------------------- execution of the IR --------------------------- *)
\* Run-time values: a 32-bit integer, the address of a stack slot, the
\* address of a string global, or an undefined value.
IntR(n)  == [t |-> "int", v |-> n]
PtrR(a)  == [t |-> "ptr", v |-> a]
StrR(g)  == [t |-> "str", v |-> g]
UndefR   == [t |-> "undef", v |-> 0]

\* sdiv rounds towards zero
SDiv(a, b) ==
    IF (a >= 0) = (b > 0) THEN (IF a >= 0 THEN a ELSE -a) \div (IF b > 0 THEN b ELSE -b)
    ELSE -((IF a >= 0 THEN a ELSE -a) \div (IF b > 0 THEN b ELSE -b))

\* The programs executed keep every value within a few units of zero, far
\* from the 32-bit range, so no wrap-around is modelled.
Arith(op, a, b) ==
    CASE op = "+" -> a + b
      [] op = "-" -> a - b
      [] op = "*" -> a * b
      [] OTHER    -> SDiv(a, b)

ICmp(op, a, b) ==
    CASE op = "<"  -> a < b
      [] op = "<=" -> a <= b
      [] op = ">"  -> a > b
      [] op = ">=" -> a >= b
      [] OTHER     -> a = b

\* Whether operand o has a value in this run: a result of another function,
\* or of an instruction that has not run, has none.
Defined(o) ==
    CASE o.k = "const" -> TRUE
      [] o.k = "arg"   -> o.f = run.f /\ o.v \in 1..Len(run.args)
      [] o.k = "reg"   -> o.f = run.f /\ o.v \in DOMAIN run.regs
      [] o.k = "global" -> TRUE
      [] OTHER -> FALSE

Eval(o) ==
    CASE o.k = "const" -> IntR(o.v)
      [] o.k = "arg"   -> IntR(run.args[o.v])
      [] o.k = "reg"   -> run.regs[o.v]
      [] o.k = "global" -> StrR(o.v)
      [] OTHER -> UndefR

ArgVals == {0, 1}

exec_start ==
    /\ pc = "done" /\ mode # "free" /\ run.status = "idle"
    /\ \E f \in 1..Len(unit) : \E a \in [1..Len(unit[f].params) -> ArgVals] :
        run' = [status |-> "running", f |-> f, b |-> 1, i |-> 1, args |-> a,
                regs |-> <<>>, mem |-> <<>>, ret |-> UndefR, out |-> <<>>,
                hist |-> <<[b |-> 1, mem |-> <<>>]>>, steps |-> 0]
    /\ UNCHANGED <<variant, unit, mode, param, todo, budget, pc, di, fi, functions,
                   globals, strs, string_constants, blocks, bfn, cur, local_symbols,
                   stack, err, last>>

Halt(st) == [run EXCEPT !.status = st]
Jump(b)  == [run EXCEPT !.b = b, !.i = 1, !.steps = @ + 1,
                        !.hist = Append(@, [b |-> b, mem |-> run.mem])]
SetReg(d, val) == [run EXCEPT !.regs = (d :> val) @@ @, !.i = @ + 1, !.steps = @ + 1]

\* One instruction of the running function.
ExecInstr(ins) ==
    IF \E k \in 1..Len(ins.args) : ~Defined(ins.args[k]) THEN Halt("undef")
    ELSE
    CASE ins.op = "alloca" ->
            [SetReg(ins.dst, PtrR(Len(run.mem) + 1)) EXCEPT !.mem = Append(@, UndefR)]
      [] ins.op = "store" ->
            [run EXCEPT !.mem[Eval(ins.args[2]).v] = Eval(ins.args[1]),
                        !.i = @ + 1, !.steps = @ + 1]
      [] ins.op = "load" -> SetReg(ins.dst, run.mem[Eval(ins.args[1]).v])
      [] ins.op = "binop" ->
            LET a == Eval(ins.args[1])
                b == Eval(ins.args[2]) IN
            IF a.t # "int" \/ b.t # "int" THEN SetReg(ins.dst, UndefR)
            ELSE IF ins.sym = "/" /\ b.v = 0 THEN Halt("undef")
            ELSE SetReg(ins.dst, IntR(Arith(ins.sym, a.v, b.v)))
      [] ins.op = "icmp" ->
            LET a == Eval(ins.args[1])
                b == Eval(ins.args[2]) IN
            IF a.t # "int" \/ b.t # "int" THEN SetReg(ins.dst, UndefR)
            ELSE SetReg(ins.dst, IntR(IF ICmp(ins.sym, a.v, b.v) THEN 1 ELSE 0))
      [] ins.op = "bitcast" -> SetReg(ins.dst, Eval(ins.args[1]))
      [] ins.op = "call" ->
            IF ins.sym = "printf"
            THEN [SetReg(ins.dst, IntR(0)) EXCEPT
                     !.out = Append(@, IF Len(ins.args) = 1
                                       THEN [t |-> "str", v |-> strs[Eval(ins.args[1]).v]]
                                       ELSE Eval(ins.args[2]))]
            ELSE Halt("call")
      [] ins.op = "br" -> Jump(ins.tgt[1])
      [] ins.op = "cbr" ->
            LET c == Eval(ins.args[1]) IN
            IF c.t # "int" THEN Halt("undef")
            ELSE Jump(IF c.v # 0 THEN ins.tgt[1] ELSE ins.tgt[2])
      [] OTHER ->  \* ret
            [run EXCEPT !.status = "returned", !.steps = @ + 1,
                        !.ret = IF ins.args = <<>> THEN UndefR ELSE Eval(ins.args[1])]

exec_step ==
    /\ run.status = "running"
    /\ run' = IF run.steps >= MaxSteps THEN Halt("timeout")
              ELSE IF run.i > Len(blocks[run.f][run.b].instrs) THEN Halt("fell_off")
              ELSE ExecInstr(blocks[run.f][run.b].instrs[run.i])
    /\ UNCHANGED <<variant, unit, mode, param, todo, budget, pc, di, fi, functions,
                   globals, strs, string_constants, blocks, bfn, cur, local_symbols,
                   stack, err, last>>

(* ------------------------------- Init ---------------------------------- *)
Variants == {"mini_compiler", "logical"}

RECURSIVE SeqsUpTo(_, _)
SeqsUpTo(S, n) ==
    IF n = 0 THEN {<<>>}
    ELSE LET r == SeqsUpTo(S, n - 1) IN r \cup {Append(q, x) : q \in r, x \in S}

Units == SeqsUpTo({DefF, DefG}, MaxFuncs) \ {<<>>}

Idle == [status |-> "idle"]

InitCompiler ==
    /\ pc = "compile" /\ di = 1 /\ fi = 1
    /\ functions = <<>>
    /\ globals = {"printf"}
    /\ strs = <<>>
    /\ string_constants = <<>>
    /\ blocks = [f \in 1..Len(unit) |-> <<>>]
    /\ bfn = 0 /\ cur = 0
    /\ local_symbols = <<>>
    /\ stack = <<>>
    /\ err = "none"
    /\ last = Mark("init", "", FALSE)
    /\ run = Idle

InitFree ==
    /\ variant \in Variants
    /\ mode = "free" /\ param = 0 /\ todo = <<>> /\ budget = MaxStmts
    /\ unit \in Units
    /\ InitCompiler

InitScript ==
    \E sc \in Scenarios :
        /\ variant = sc.variant
        /\ mode = sc.mode /\ param = sc.param /\ todo = sc.todo /\ budget = 0
        /\ unit = sc.unit
        /\ InitCompiler

Init == InitFree \/ InitScript

Next ==
    \/ declare_function
    \/ visit_FunctionDef
    \/ FunctionEnd
    \/ visit_Assign
    \/ visit_Return
    \/ visit_Expr
    \/ generic_visit
    \/ generic_end
    \/ visit_If
    \/ if_then_end
    \/ if_else_end
    \/ visit_While
    \/ while_end
    \/ compile_return
    \/ exec_start
    \/ exec_step

Spec == Init /\ [][Next]_vars

(* ======================= the claims, C1 .. C11 ========================= *)
\* Every instruction of the module, by function, block and position.
Places ==
    UNION {UNION {{<<f, b, i>> : i \in 1..Len(blocks[f][b].instrs)} :
                    b \in 1..Len(blocks[f])} : f \in 1..Len(blocks)}
At(p) == blocks[p[1]][p[2]].instrs[p[3]]

\* A block is well terminated: it holds a terminator, exactly one, and
\* nothing after it.
WellTerminated(blk) ==
    /\ Len(blk.instrs) > 0
    /\ \A i \in 1..Len(blk.instrs) :
          (blk.instrs[i].op \in Terminators) <=> (i = Len(blk.instrs))

\* C1: when compile() returns IR, every basic block of every function holds
\* exactly one terminator and that terminator is its last instruction.
C1_OneTerminatorLast ==
    pc = "done" =>
        \A f \in 1..Len(blocks) : \A b \in 1..Len(blocks[f]) :
            WellTerminated(blocks[f][b])

\* The current block was closed by a return statement.
ClosedByReturn ==
    /\ InBody
    /\ IsTerminated
    /\ \E i \in 1..Len(blocks[bfn][cur].instrs) : blocks[bfn][cur].instrs[i].op = "ret"

\* C2: once a return has closed the current block, lowering a following
\* assignment, expression statement, print or return (one that raises
\* nothing of its own: its names are bound, its callee declared, its
\* operators supported) raises no error and leaves the function's
\* instructions and blocks exactly as they were.
C2_TrailingStatementsAddNothing ==
    [][ (/\ ClosedByReturn
         /\ last'.k \in {"Assign", "Expr", "Return"}
         /\ ~last'.unsup
         /\ err' \in {"none", "AssertionError"})
        => (err' = "none" /\ blocks' = blocks) ]_vars

StrConstNames == {StrConstName(n) : n \in 0..4}
PrintfCalls == {p \in Places : At(p).op = "call" /\ At(p).sym = "printf"}

\* C3: interning is idempotent and injective over the whole compilation:
\* it never fails; the string globals are as many as the distinct payloads
\* interned so far and carry distinct names; distinct payloads have distinct
\* references; and every print call, in whatever function, is handed the one
\* reference of its text, which is the cast of the global holding that text.
C3_InternOncePerPayload ==
    /\ last.k = "Expr" => err # "DuplicatedNameError"
    /\ Len(strs) = Cardinality(DOMAIN string_constants)
    /\ Len(strs) = Cardinality({strs[i] : i \in 1..Len(strs)})
    /\ Len(strs) = Cardinality(globals \cap StrConstNames)
    /\ {strs[i] : i \in 1..Len(strs)} = DOMAIN string_constants
    /\ \A s, t \in DOMAIN string_constants :
          s # t => string_constants[s] # string_constants[t]
    /\ \A p \in PrintfCalls :
          /\ At(p).txt \in DOMAIN string_constants
          /\ At(p).args[1] = string_constants[At(p).txt]
    /\ \A s \in DOMAIN string_constants :
          \E p \in Places :
             /\ At(p).op = "bitcast"
             /\ RegV(p[1], At(p).dst, "ptr") = string_constants[s]
             /\ strs[At(p).args[1].v] = s

\* C3 witness: two print calls at different places share the text "a", one
\* of them in a second function, and the "%d\n" format is interned as well.
C3_Witness ==
    /\ \E p, q \in PrintfCalls : p[1] # q[1] /\ At(p).txt = "a" /\ At(q).txt = "a"
    /\ \E p, q \in PrintfCalls : p # q /\ At(p).txt = "%d\n" /\ At(q).txt = "%d\n"
    /\ Len(strs) = 2

\* C4: in a conditional whose arms first assign x, a read of x after the
\* merge point lowers without error and, at execution, yields the value
\* stored by the arm that ran (here: 1 in the then-arm, taken when n < 1,
\* and 2 in the else-arm).
C4_ArmAssignmentVisibleAfterMerge ==
    (mode = "ifboth" \/ (mode = "ifthen" /\ run.status # "idle" /\ run.args = <<0>>)) =>
        /\ err = "none"
        /\ run.status \notin {"idle", "running"} =>
              /\ run.status = "returned"
              /\ run.ret = IntR(IF run.args[1] < 1 THEN 1 ELSE 2)

UnitNames == {unit[i].name : i \in 1..Len(unit)}
DeclaredArity(name) == Len(unit[CHOOSE i \in 1..Len(unit) : unit[i].name = name].params)
ArgsFor(name) == [i \in 1..DeclaredArity(name) |-> One]

\* C5: every top-level function is declared, with its arity, before any
\* body is lowered; so while a body is lowered a call to any function of the
\* unit (earlier, later or the enclosing one) resolves to its handle, and
\* compile() never fails for an unknown function or a missing handle unless
\* the callee is defined nowhere in the unit.
C5_DeclaredBeforeLowered ==
    /\ (stack # <<>> \/ fi > 1) =>
          \A i \in 1..Len(unit) :
             /\ unit[i].name \in DOMAIN functions
             /\ functions[unit[i].name] = Len(unit[i].params)
    /\ err # "KeyError"
    /\ InBody =>
          \A name \in UnitNames :
             LET r == Visit(Call(name, ArgsFor(name)), NInstrs(bfn)) IN
             /\ r.err = "none"
             /\ r.code[Len(r.code)].op = "call" /\ r.code[Len(r.code)].sym = name
    /\ \A p \in Places : At(p).op = "call" => At(p).sym \in UnitNames \cup {"printf"}

\* C5 witness: the first function's body holds a call to the second, which
\* is defined after it.
C5_Witness ==
    /\ Len(unit) = 2 /\ pc = "done"
    /\ \E p \in Places : p[1] = 1 /\ At(p).op = "call" /\ At(p).sym = unit[2].name

\* C6: at the end of a function body `ret 0` is appended to the insertion
\* block exactly when that block is open; a closed insertion block and every
\* other block of the module are left as they were.
C6_ImplicitReturn ==
    [][ last'.k = "FunctionEnd" =>
          /\ \A f \in 1..Len(blocks) : \A b \in 1..Len(blocks[f]) :
                (f # bfn \/ b # cur) => blocks'[f][b] = blocks[f][b]
          /\ Len(blocks'[bfn]) = Len(blocks[bfn])
          /\ bfn' = bfn /\ cur' = cur
          /\ IF blocks[bfn][cur].term
             THEN blocks'[bfn][cur] = blocks[bfn][cur]
             ELSE /\ blocks'[bfn][cur].term
                  /\ Len(blocks'[bfn][cur].instrs) = Len(blocks[bfn][cur].instrs) + 1
                  /\ SubSeq(blocks'[bfn][cur].instrs, 1, Len(blocks[bfn][cur].instrs))
                        = blocks[bfn][cur].instrs
                  /\ LET r == blocks'[bfn][cur].instrs[Len(blocks'[bfn][cur].instrs)] IN
                     r.op = "ret" /\ r.args = <<ConstV(0)>> ]_vars

\* C6 witness: a function has ended in an open merge block, which received
\* the implicit return, while its then-block keeps its explicit return.
C6_Witness ==
    /\ last.k = "FunctionEnd"
    /\ blocks[bfn][cur].label = "merge"
    /\ blocks[bfn][cur].instrs # <<>>
    /\ blocks[bfn][cur].instrs[1].op = "ret"
    /\ blocks[bfn][cur].instrs[1].args = <<ConstV(0)>>
    /\ \E b \in 1..Len(blocks[bfn]) :
          /\ blocks[bfn][b].label = "then"
          /\ blocks[bfn][b].instrs[1].op = "ret"
          /\ blocks[bfn][b].instrs[1].args = <<ConstV(1)>>
          /\ Len(blocks[bfn][b].instrs) = 1

\* C7: lowering an arithmetic or comparison node whose operator is outside
\* the supported sets fails with an error, aborting compile(); lowering
\* never goes on with the absent value.
C7_UnsupportedOperatorRaises ==
    last.unsup => (pc = "error" /\ err # "none")

\* C8: no terminator insertion is ever applied to a closed block (llvmlite
\* asserts that the block is open on every insertion).
C8_NoTerminateOnClosedBlock ==
    err # "AssertionError"

\* C9: an assignment to a name that is already bound (a parameter or an
\* assigned local), whose right-hand side lowers to a value, succeeds as an
\* overwrite: no error, no second slot, the binding unchanged and a pointer.
C9_AssignToBoundNameOverwrites ==
    [][ (/\ InBody
         /\ last'.k = "Assign"
         /\ last'.id \in DOMAIN local_symbols
         /\ ~last'.unsup
         /\ err' # "NameError")
        => (/\ err' = "none"
            /\ local_symbols' = local_symbols
            /\ local_symbols[last'.id].t = "ptr"
            /\ NInstrs(bfn)' >= NInstrs(bfn) + 1) ]_vars

\* The blocks of function f that branch to block c.
Preds(f, c) ==
    {b \in 1..Len(blocks[f]) :
        \E i \in 1..Len(blocks[f][b].instrs) : c \in {blocks[f][b].instrs[i].tgt[j] :
                                                  j \in 1..Len(blocks[f][b].instrs[i].tgt)}}

\* The only branch of block b is an unconditional one to c.
BranchesOnlyTo(f, b, c) ==
    \A i \in 1..Len(blocks[f][b].instrs) :
        blocks[f][b].instrs[i].op \in {"br", "cbr"} =>
            blocks[f][b].instrs[i].op = "br" /\ blocks[f][b].instrs[i].tgt = <<c>>

\* The loop whose cond block is c: cond tests and branches to body or end,
\* one earlier block and one body block branch to cond and nowhere else,
\* and nothing else enters body or end.
LoopShape(f, c) ==
    LET cond == blocks[f][c].instrs
        cbr == cond[Len(cond)] IN
    /\ blocks[f][c + 1].label = "while_body" /\ blocks[f][c + 2].label = "while_end"
    /\ cbr.op = "cbr" /\ cbr.tgt = <<c + 1, c + 2>>
    /\ \E i \in 1..Len(cond) - 1 :
          cond[i].op = "icmp" /\ cbr.args = <<RegV(f, cond[i].dst, "i1")>>
    /\ Cardinality({p \in Preds(f, c) : p < c}) = 1
    /\ Cardinality({q \in Preds(f, c) : q > c}) = 1
    /\ \A p \in Preds(f, c) : BranchesOnlyTo(f, p, c)
    /\ Preds(f, c + 1) = {c}
    /\ Preds(f, c + 2) = {c}

BodyEntries == SelectSeq(run.hist, LAMBDA h : h.b = 3)

\* C10: every lowered while loop (its body without return) has the shape
\* pre -> cond, cond -> body | end, body -> cond, and lowering goes on in the
\* empty end block; so in every execution a body block is entered from its
\* cond block only, and the loop counting i from 0 while i < k (k = 3
\* included) enters its body exactly k times, with i = 0, 1, .., k-1 in that
\* order, and then leaves through end.
C10_WhileLoop ==
    /\ (pc = "done" /\ variant = "logical") =>
          \A f \in 1..Len(blocks) : \A c \in 1..Len(blocks[f]) :
              blocks[f][c].label = "while_cond" => LoopShape(f, c)
    /\ (last.k = "while_end" /\ err = "none") =>
          /\ blocks[bfn][cur].label = "while_end"
          /\ blocks[bfn][cur].instrs = <<>> /\ ~blocks[bfn][cur].term
          /\ blocks[bfn][cur - 2].label = "while_cond"
          /\ \E q \in Preds(bfn, cur - 2) : q > cur - 2
    /\ (variant = "logical" /\ run.status # "idle") =>
          \A j \in 1..Len(run.hist) :
              blocks[run.f][run.hist[j].b].label = "while_body" =>
                  j > 1 /\ run.hist[j - 1].b = run.hist[j].b - 1
    /\ (mode \in {"count", "nested"} /\ run.status \notin {"idle", "running"}) =>
          /\ run.status = "returned"
          /\ run.ret = IntR(param)
          /\ [j \in 1..Len(BodyEntries) |-> BodyEntries[j].mem[1]]
                = [j \in 1..param |-> IntR(j - 1)]
          /\ run.hist[Len(run.hist)].b = 4
          /\ run.hist[Len(run.hist) - 1].b = 2

\* C10 witness: the loop counting to 3 has run: three rounds, then end.
C10_Witness ==
    /\ mode = "count" /\ param = 3 /\ run.status = "returned"
    /\ Len(BodyEntries) = 3
    /\ run.hist[Len(run.hist)].b = 4

\* An operand a that an instruction of function f may use: an integer
\* constant, a global, a parameter of f, or the result of an instruction
\* of f.
OwnOperand(f, a) ==
    \/ a.k \in {"const", "global"}
    \/ a.k = "arg" /\ a.f = f
    \/ /\ a.k = "reg"
       /\ a.f = f
       /\ \E b \in 1..Len(blocks[f]) : \E i \in 1..Len(blocks[f][b].instrs) :
             blocks[f][b].instrs[i].dst = a.v

\* C11: in the module compile() returns, every operand of every instruction
\* of a function F is an integer constant, a global, a parameter of F or the
\* result of an instruction of F; in particular the string reference handed
\* to printf in F is the result of a cast that sits in F, also when the text
\* (or the "%d\n" format) was first interned while lowering another function.
C11_OperandsBelongToFunction ==
    pc = "done" =>
        \A p \in Places : \A i \in 1..Len(At(p).args) :
            OwnOperand(p[1], At(p).args[i])

=============================================================================
